---- MODULE Spec2Model ----
(***************************************************************************)
(* Model of the OpenProject commit-sync webhook service (src/app/main.py). *)
(* Text (commit messages, branch names, refs) is a sequence of one-        *)
(* character strings, so that the regular-expression scans of the source   *)
(* are computed character by character.                                    *)
(***************************************************************************)
EXTENDS Integers, Sequences, FiniteSets, TLC

(***************************************************************************)
(* Bounds of the model.                                                    *)
(***************************************************************************)
MaxParts == 4
MaxCommits == 2
MaxShapes == 2

(***************************************************************************)
(* Characters and generic sequence helpers.                                *)
(***************************************************************************)
Digits == <<"0", "1", "2", "3", "4", "5", "6", "7", "8", "9">>

DigitSet == {Digits[d] : d \in 1..10}

IsDigit(c) == c \in DigitSet

DigitVal(c) == (CHOOSE d \in 1..10 : Digits[d] = c) - 1

UpperCase == <<"A", "B", "C", "D", "E", "F", "G", "H", "I", "J", "K", "L", "M",
               "N", "O", "P", "Q", "R", "S", "T", "U", "V", "W", "X", "Y", "Z">>

LowerCase == <<"a", "b", "c", "d", "e", "f", "g", "h", "i", "j", "k", "l", "m",
               "n", "o", "p", "q", "r", "s", "t", "u", "v", "w", "x", "y", "z">>

UpperSet == {UpperCase[k] : k \in 1..26}

LowerChar(c) ==
    IF c \in UpperSet
    THEN LowerCase[CHOOSE k \in 1..26 : UpperCase[k] = c]
    ELSE c

\* str.lower()
Lower(text) == [p \in 1..Len(text) |-> LowerChar(text[p])]

IsSpace(c) == c \in {" ", "\n", "\t", "\r"}

RECURSIVE LStrip(_)
LStrip(text) ==
    IF text # <<>> /\ IsSpace(Head(text)) THEN LStrip(Tail(text)) ELSE text

RECURSIVE RStrip(_)
RStrip(text) ==
    IF text # <<>> /\ IsSpace(text[Len(text)])
    THEN RStrip(SubSeq(text, 1, Len(text) - 1))
    ELSE text

\* str.strip()
Strip(text) == RStrip(LStrip(text))

\* str.endswith(suffix)
EndsWith(text, suffix) ==
    /\ Len(suffix) <= Len(text)
    /\ SubSeq(text, Len(text) - Len(suffix) + 1, Len(text)) = suffix

\* str.startswith(prefix)
StartsWith(text, prefix) ==
    /\ Len(prefix) <= Len(text)
    /\ SubSeq(text, 1, Len(prefix)) = prefix

\* int(raw) for a run of decimal digits
RECURSIVE IntOf(_)
IntOf(raw) ==
    IF raw = <<>> THEN 0
    ELSE 10 * IntOf(SubSeq(raw, 1, Len(raw) - 1)) + DigitVal(raw[Len(raw)])

\* list(dict.fromkeys(items)): first occurrences, in order
RECURSIVE DictFromKeys(_)
DictFromKeys(items) ==
    IF items = <<>> THEN <<>>
    ELSE LET init == DictFromKeys(SubSeq(items, 1, Len(items) - 1))
             last == items[Len(items)]
         IN  IF \E k \in 1..Len(init) : init[k] = last
             THEN init
             ELSE Append(init, last)

\* end (exclusive) of the maximal digit run starting at position p
RECURSIVE DigitRunEnd(_, _)
DigitRunEnd(text, p) ==
    IF p <= Len(text) /\ IsDigit(text[p]) THEN DigitRunEnd(text, p + 1) ELSE p

\* the least element of a non-empty set of positions
Least(positions) == CHOOSE p \in positions : \A q \in positions : p <= q

(***************************************************************************)
(* TASK_ID_PATTERN = #(\d+) : the non-overlapping matches from position p, *)
(* each as its start position and the digit run of group 1.                *)
(***************************************************************************)
RECURSIVE TASK_ID_PATTERN_finditer(_, _)
TASK_ID_PATTERN_finditer(text, p) ==
    LET starts == {q \in p..Len(text) :
                      text[q] = "#" /\ q < Len(text) /\ IsDigit(text[q + 1])}
    IN  IF starts = {} THEN <<>>
        ELSE LET q == Least(starts)
                 e == DigitRunEnd(text, q + 1)
             IN  <<[start |-> q, raw |-> SubSeq(text, q + 1, e - 1)]>>
                   \o TASK_ID_PATTERN_finditer(text, e)

(***************************************************************************)
(* BRANCH_TASK_PATTERN = (?:^|[-_/])(\d+) : group 1 of the non-overlapping *)
(* matches from position p. A match starts at a digit that opens the text, *)
(* or at one of - _ / that a digit follows.                                *)
(***************************************************************************)
RECURSIVE BRANCH_TASK_PATTERN_finditer(_, _)
BRANCH_TASK_PATTERN_finditer(text, p) ==
    LET starts == {q \in p..Len(text) :
                      \/ q = 1 /\ IsDigit(text[q])
                      \/ text[q] \in {"-", "_", "/"} /\ q < Len(text) /\ IsDigit(text[q + 1])}
    IN  IF starts = {} THEN <<>>
        ELSE LET q == Least(starts)
                 d == IF IsDigit(text[q]) THEN q ELSE q + 1
                 e == DigitRunEnd(text, d)
             IN  <<SubSeq(text, d, e - 1)>> \o BRANCH_TASK_PATTERN_finditer(text, e)

PULL_REQUEST_SP == <<"p", "u", "l", "l", " ", "r", "e", "q", "u", "e", "s", "t", " ">>
PULL_REQUEST_HY == <<"p", "u", "l", "l", "-", "r", "e", "q", "u", "e", "s", "t", " ">>

IsPrNumber_space_only(text, m) ==
    EndsWith(Lower(SubSeq(text, 1, m.start - 1)), PULL_REQUEST_SP)

\* the condition of the "continue" in iter_task_ids
IsPrNumber(text, m) ==
    LET before == Lower(SubSeq(text, 1, m.start - 1))
    IN  EndsWith(before, PULL_REQUEST_SP) \/ EndsWith(before, PULL_REQUEST_HY)

\* the "raw not in seen" test of iter_task_ids: seen holds the digit runs
NotSeen(seen, raw) == \A k \in 1..Len(seen) : seen[k] # raw

\* the loop of iter_task_ids over the matches; returns the raw runs yielded
RECURSIVE IterTaskIdsLoop(_, _, _)
IterTaskIdsLoop(text, matches, seen) ==
    IF matches = <<>> THEN seen
    ELSE LET m == Head(matches)
         IN  IF IsPrNumber(text, m)
             THEN IterTaskIdsLoop(text, Tail(matches), seen)
             ELSE IF NotSeen(seen, m.raw)
                  THEN IterTaskIdsLoop(text, Tail(matches), Append(seen, m.raw))
                  ELSE IterTaskIdsLoop(text, Tail(matches), seen)

\* list(iter_task_ids(message))
iter_task_ids(message) ==
    LET yielded == IterTaskIdsLoop(message, TASK_ID_PATTERN_finditer(message, 1), <<>>)
    IN  [k \in 1..Len(yielded) |-> IntOf(yielded[k])]

\* list(iter_branch_task_ids(branch_name))
iter_branch_task_ids(branch_name) ==
    LET found == TASK_ID_PATTERN_finditer(branch_name, 1)
        ids == DictFromKeys([k \in 1..Len(found) |-> found[k].raw])
        loose == BRANCH_TASK_PATTERN_finditer(branch_name, 1)
    IN  IF ids # <<>>
        THEN [k \in 1..Len(ids) |-> IntOf(ids[k])]
        ELSE [k \in 1..Len(loose) |-> IntOf(loose[k])]

(***************************************************************************)
(* Branch helpers.                                                         *)
(***************************************************************************)
Contains(text, c) == \E p \in 1..Len(text) : text[p] = c

\* position of the first occurrence of c at or after position p (0 if none)
FirstIndexFrom(text, c, p) ==
    IF \E q \in p..Len(text) : text[q] = c
    THEN CHOOSE q \in p..Len(text) :
            text[q] = c /\ \A r \in p..(q - 1) : text[r] # c
    ELSE 0

\* position of the last occurrence of c (0 if none)
LastIndex(text, c) ==
    IF Contains(text, c)
    THEN CHOOSE q \in 1..Len(text) :
            text[q] = c /\ \A r \in (q + 1)..Len(text) : text[r] # c
    ELSE 0

\* text.split("/", 2)[-1]
SplitTwoLast(text) ==
    LET a == FirstIndexFrom(text, "/", 1)
        b == IF a = 0 THEN 0 ELSE FirstIndexFrom(text, "/", a + 1)
        cut == IF b # 0 THEN b ELSE a
    IN  SubSeq(text, cut + 1, Len(text))

extract_branch_name(ref) ==
    IF ref = <<>> THEN <<>>
    ELSE IF Contains(ref, "/") THEN SplitTwoLast(ref)
    ELSE ref

None == ""

\* name.split("/")[-1]
LastSegment(name) == SubSeq(name, LastIndex(name, "/") + 1, Len(name))

derive_status_key_from_branch_no_lower(branch_name) ==
    LET name == Strip(branch_name)
        short == LastSegment(name)
    IN  IF name = <<>> THEN None
        ELSE IF short \in {<<"m", "a", "i", "n">>, <<"m", "a", "s", "t", "e", "r">>}
             THEN "completed"
        ELSE IF short = <<"d", "e", "v">> THEN "testing"
        ELSE None

derive_status_key_from_branch(branch_name) ==
    LET name == Lower(Strip(branch_name))
        short == LastSegment(name)
    IN  IF name = <<>> THEN None
        ELSE IF short \in {<<"m", "a", "i", "n">>, <<"m", "a", "s", "t", "e", "r">>}
             THEN "completed"
        ELSE IF short = <<"d", "e", "v">> THEN "testing"
        ELSE None

(***************************************************************************)
(* Commit records and comment composition.                                 *)
(***************************************************************************)
\* first truthy value of a chain of "or", with the final literal default
FirstTruthy(values, default) ==
    IF \E k \in 1..Len(values) : values[k] # ""
    THEN values[CHOOSE k \in 1..Len(values) :
                    values[k] # "" /\ \A j \in 1..(k - 1) : values[j] = ""]
    ELSE default

resolve_author(commit) ==
    IF commit.author.kind = "dict"
    THEN FirstTruthy(<<commit.author.name, commit.author.username,
                       commit.author.email>>, "Unknown")
    ELSE IF commit.author.kind = "str"
    THEN commit.author.name
    ELSE FirstTruthy(<<commit.author_name, commit.author_username>>, "Unknown")

\* "\n".join(lines)
RECURSIVE JoinLines(_)
JoinLines(lines) ==
    IF lines = <<>> THEN <<>>
    ELSE IF Len(lines) = 1 THEN lines[1]
    ELSE lines[1] \o <<"\n">> \o JoinLines(Tail(lines))

(***************************************************************************)
(* Merge-commit shapes (MERGE_PR_PATTERN, MERGE_BRANCH_PATTERN,            *)
(* MERGE_REMOTE_PATTERN), all searched case-insensitively.                 *)
(***************************************************************************)
\* message.splitlines()[0] of a message that has a first line
FirstLine(message) ==
    LET breaks == {p \in 1..Len(message) : message[p] \in {"\n", "\r"}}
    IN  IF breaks = {} THEN message
        ELSE SubSeq(message, 1, (CHOOSE p \in breaks : \A q \in breaks : p <= q) - 1)

\* the literal lit (lower case) stands at position p, ignoring case
LiteralAt(text, p, lit) ==
    /\ p + Len(lit) - 1 <= Len(text)
    /\ LowerChar(text[p]) = lit[1]
    /\ Lower(SubSeq(text, p, p + Len(lit) - 1)) = lit

IsLetter(c) == \E k \in 1..26 : UpperCase[k] = c \/ LowerCase[k] = c

\* \w
IsWord(c) == IsLetter(c) \/ IsDigit(c) \/ c = "_"

\* [\w\-./]
IsBranchChar(c) == IsWord(c) \/ c \in {"-", ".", "/"}

\* [^/\s]
IsOwnerChar(c) == c # "/" /\ ~IsSpace(c)

\* end (exclusive) of the maximal run from p of characters other than "'"
RECURSIVE UnquotedRunEnd(_, _)
UnquotedRunEnd(text, p) ==
    IF p <= Len(text) /\ text[p] # "'" THEN UnquotedRunEnd(text, p + 1) ELSE p

RECURSIVE OwnerRunEnd(_, _)
OwnerRunEnd(text, p) ==
    IF p <= Len(text) /\ IsOwnerChar(text[p]) THEN OwnerRunEnd(text, p + 1) ELSE p

RECURSIVE BranchRunEnd(_, _)
BranchRunEnd(text, p) ==
    IF p <= Len(text) /\ IsBranchChar(text[p]) THEN BranchRunEnd(text, p + 1) ELSE p

MERGE_PR_HEAD == <<"m", "e", "r", "g", "e", " ", "p", "u", "l", "l", " ", "r", "e", "q", "u", "e", "s", "t", " ", "#">>
MERGE_PR_FROM == <<" ", "f", "r", "o", "m", " ">>
MERGE_BRANCH_HEAD == <<"m", "e", "r", "g", "e", " ", "b", "r", "a", "n", "c", "h", " ", "'">>
MERGE_BRANCH_INTO == <<"'", " ", "i", "n", "t", "o", " ", "'">>
MERGE_REMOTE_HEAD == <<"m", "e", "r", "g", "e", " ", "r", "e", "m", "o", "t", "e", "-", "t", "r", "a", "c", "k", "i", "n", "g", " ", "b", "r", "a", "n", "c", "h", " ", "'">>
ORIGIN_PREFIX == <<"o", "r", "i", "g", "i", "n", "/">>

NoMatch == [found |-> FALSE, group |-> <<>>]

\* MERGE_PR_PATTERN anchored at position p; group is the named group "branch"
MergePrAt(line, p) ==
    LET d0 == p + Len(MERGE_PR_HEAD)
        d1 == DigitRunEnd(line, d0)
        o0 == d1 + Len(MERGE_PR_FROM)
        o1 == OwnerRunEnd(line, o0)
        b1 == BranchRunEnd(line, o1 + 1)
    IN  IF /\ LiteralAt(line, p, MERGE_PR_HEAD)
           /\ d1 > d0
           /\ LiteralAt(line, d1, MERGE_PR_FROM)
           /\ o1 > o0
           /\ o1 <= Len(line) /\ line[o1] = "/"
           /\ b1 > o1 + 1
        THEN [found |-> TRUE, group |-> SubSeq(line, o1 + 1, b1 - 1)]
        ELSE NoMatch

\* MERGE_BRANCH_PATTERN anchored at position p; group is group 1
MergeBranchAt(line, p) ==
    LET s0 == p + Len(MERGE_BRANCH_HEAD)
        s1 == UnquotedRunEnd(line, s0)
        t0 == s1 + Len(MERGE_BRANCH_INTO)
        t1 == UnquotedRunEnd(line, t0)
    IN  IF /\ LiteralAt(line, p, MERGE_BRANCH_HEAD)
           /\ s1 > s0
           /\ LiteralAt(line, s1, MERGE_BRANCH_INTO)
           /\ t1 > t0
           /\ t1 <= Len(line)
        THEN [found |-> TRUE, group |-> SubSeq(line, s0, s1 - 1)]
        ELSE NoMatch

\* MERGE_REMOTE_PATTERN anchored at position p; group is group 1
MergeRemoteAt(line, p) ==
    LET s0 == p + Len(MERGE_REMOTE_HEAD)
        s1 == UnquotedRunEnd(line, s0)
    IN  IF /\ LiteralAt(line, p, MERGE_REMOTE_HEAD)
           /\ s1 > s0
           /\ s1 <= Len(line)
        THEN [found |-> TRUE, group |-> SubSeq(line, s0, s1 - 1)]
        ELSE NoMatch

\* MERGE_PR_PATTERN.search(line): the match at the leftmost position that has one
MergePrSearch(line) ==
    LET hits == {p \in 1..Len(line) : MergePrAt(line, p).found}
    IN  IF hits = {} THEN NoMatch ELSE MergePrAt(line, Least(hits))

\* MERGE_BRANCH_PATTERN.search(line)
MergeBranchSearch(line) ==
    LET hits == {p \in 1..Len(line) : MergeBranchAt(line, p).found}
    IN  IF hits = {} THEN NoMatch ELSE MergeBranchAt(line, Least(hits))

\* MERGE_REMOTE_PATTERN.search(line)
MergeRemoteSearch(line) ==
    LET hits == {p \in 1..Len(line) : MergeRemoteAt(line, p).found}
    IN  IF hits = {} THEN NoMatch ELSE MergeRemoteAt(line, Least(hits))

\* position of the first occurrence of the sequence old in text (0 if none)
FindSeq(text, old) ==
    LET hits == {p \in 1..Len(text) : StartsWith(SubSeq(text, p, Len(text)), old)}
    IN  IF hits = {} THEN 0 ELSE Least(hits)

\* text.replace(old, "", 1)
RemoveFirst(text, old) ==
    LET p == FindSeq(text, old)
    IN  IF p = 0 THEN text
        ELSE SubSeq(text, 1, p - 1) \o SubSeq(text, p + Len(old), Len(text))

\* branch.split("/", 1)[-1] if "/" in branch else branch
AfterFirstSlash(branch) ==
    IF Contains(branch, "/")
    THEN SubSeq(branch, FirstIndexFrom(branch, "/", 1) + 1, Len(branch))
    ELSE branch

\* what the function gives when "".splitlines()[0] raises
INDEX_ERROR == <<"IndexError">>

\* the empty text stands for the None result
extract_source_branch_from_message(message, target) ==
    LET first_line == FirstLine(message)
        pr == MergePrSearch(first_line)
        prBranch == AfterFirstSlash(pr.group)
        mb == MergeBranchSearch(first_line)
        mbBranch == RemoveFirst(Strip(mb.group), ORIGIN_PREFIX)
        mr == MergeRemoteSearch(first_line)
        mrBranch == RemoveFirst(Strip(mr.group), ORIGIN_PREFIX)
    IN  IF message = <<>> THEN INDEX_ERROR
        ELSE IF pr.found /\ prBranch # <<>> /\ prBranch # target THEN prBranch
        ELSE IF mb.found /\ mbBranch # <<>> /\ mbBranch # target THEN mbBranch
        ELSE IF mr.found /\ mrBranch # <<>> /\ mrBranch # target THEN mrBranch
        ELSE <<>>

(***************************************************************************)
(* State.                                                                  *)
(*   STATUS_MAPPING, configured : the configuration read at process start  *)
(*   concurrency : how many webhook invocations the host runs at once      *)
(*   payload, inv : per invocation, the event received and the handler's   *)
(*                  locals, its position, its outbound calls so far (log)  *)
(*                  and the response it gave (result)                      *)
(*   lockVersion, wpStatus : the tracker's revision counter and status     *)
(*                  reference of each work package                         *)
(*   text, target_branch, value, fn, out : arguments, name and result of a *)
(*                  pure function applied on its own                       *)
(***************************************************************************)
VARIABLES STATUS_MAPPING, configured, concurrency, payload, inv,
          lockVersion, wpStatus, text, target_branch, value, fn, out

vars == <<STATUS_MAPPING, configured, concurrency, payload, inv,
          lockVersion, wpStatus, text, target_branch, value, fn, out>>

Invocations == {1, 2}

StatusKeys == {"completed", "testing", "in_progress"}

\* the value load_status_mapping gives each key of a mapping document
HrefOf(key) ==
    CASE key = "completed" -> "/api/v3/statuses/12"
      [] key = "testing" -> "/api/v3/statuses/7"
      [] key = "in_progress" -> "https://op.example/api/v3/statuses/3"

\* mappings load_status_mapping returns for documents over StatusKeys
Mappings ==
    {[k \in keys |-> HrefOf(k)] :
        keys \in {{}, {"in_progress"}, {"completed", "testing"}, StatusKeys}}

(***************************************************************************)
(* Webhook payloads.                                                       *)
(***************************************************************************)
AuthorDict(name, username, email) ==
    [kind |-> "dict", name |-> name, username |-> username, email |-> email]

AuthorAbsent == [kind |-> "none", name |-> "", username |-> "", email |-> ""]

Commit(message, url, author, author_name, files_line) ==
    [message |-> message, url |-> url, author |-> author,
     author_name |-> author_name, author_username |-> "", files_line |-> files_line]

CommitPool ==
    << Commit(<<"#", "1", "0", " ", "#", "1", "0">>, "https://git.example/c/1", AuthorDict("Ann", "ann", ""), "", ""),
       Commit(<<"#", "2", "0">>, "", AuthorDict("", "bob", "b@example.org"), "", "+ a.py"),
       Commit(<<"f", "i", "x", " ", "#", "2", "0", ",", " ", "#", "1", "0">>, "", AuthorAbsent, "Cy", ""),
       Commit(<<"#", "7", " ", "#", "0", "7">>, "", AuthorAbsent, "", ""),
       Commit(<<" ", "#", "0", "\n">>, "", AuthorDict("", "", ""), "", ""),
       Commit(<<" ", " ">>, "", AuthorAbsent, "", ""),
       Commit(<<"w", "i", "p">>, "", AuthorAbsent, "", ""),
       Commit(<<"M", "e", "r", "g", "e", " ", "p", "u", "l", "l", " ", "r", "e", "q", "u", "e", "s", "t", " ", "#", "4", "2", " ", "f", "r", "o", "m", " ", "u", "s", "e", "r", "/", "f", "i", "x", "-", "#", "7">>,
              "", AuthorDict("", "", "m@example.org"), "", "") >>

RefPool ==
    << <<"r", "e", "f", "s", "/", "h", "e", "a", "d", "s", "/", "m", "a", "i", "n">>,
       <<"r", "e", "f", "s", "/", "h", "e", "a", "d", "s", "/", "x", "/", "D", "e", "v">>,
       <<"r", "e", "f", "s", "/", "h", "e", "a", "d", "s", "/", "t", "-", "1", "0", "-", "7">>,
       <<"r", "e", "f", "s", "/", "h", "e", "a", "d", "s", "/", "f", "-", "#", "7", "-", "#", "0", "7">>,
       <<"r", "e", "f", "s", "/", "h", "e", "a", "d", "s", "/", "0", "_", "0">>,
       <<"r", "e", "f", "s", "/", "h", "e", "a", "d", "s", "/", "1", "0", "/", "m", "a", "s", "t", "e", "r">>,
       <<>> >>

\* the ref of a GitHub "create" event is the bare branch name
BareRefPool ==
    << <<"t", "-", "1", "0", "-", "7">>,
       <<"f", "e", "a", "t", "u", "r", "e", "/", "2", "0", "-", "x">>,
       <<"w", "i", "p">> >>

ZERO_SHA == [p \in 1..40 |-> "0"]
SOME_SHA == <<"9", "5", "7", "9", "0", "b", "f", "8">>

\* sequences over 1..n of length at most m
RECURSIVE SeqsUpTo(_, _)
SeqsUpTo(n, m) ==
    IF m = 0 THEN {<<>>}
    ELSE LET shorter == SeqsUpTo(n, m - 1)
         IN  shorter \cup {Append(q, k) : q \in {r \in shorter : Len(r) = m - 1}, k \in 1..n}

Ascending(q) == \A a, b \in 1..Len(q) : a < b => q[a] < q[b]

\* the commit lists of a push: at most m commits of the pool, in pool order
CommitLists(m) ==
    {[k \in 1..Len(q) |-> CommitPool[q[k]]] :
        q \in {r \in SeqsUpTo(Len(CommitPool), m) : Ascending(r)}}

Event(provider, event, ref_type, created, object_kind, before) ==
    [provider |-> provider, event |-> event, ref_type |-> ref_type,
     created |-> created, object_kind |-> object_kind, before |-> before]

GitHubPush == Event("GitHub", "push", "", FALSE, "", <<>>)
GitHubPushCreated == Event("GitHub", "push", "", TRUE, "", <<>>)
GitLabPush == Event("GitLab", "push hook", "", FALSE, "push", SOME_SHA)
GitLabPushNew == Event("GitLab", "push hook", "", FALSE, "push", ZERO_SHA)

\* events that carry no commit list
PlainEvents ==
    { Event("GitHub", "ping", "", FALSE, "", <<>>),
      Event("GitHub", "create", "branch", FALSE, "", <<>>),
      Event("GitHub", "create", "tag", FALSE, "", <<>>),
      Event("GitHub", "issues", "", FALSE, "", <<>>),
      Event("GitHub", "", "", FALSE, "", <<>>),
      Event("GitLab", "system hook", "", FALSE, "", <<>>),
      Event("GitLab", "tag push hook", "", FALSE, "tag_push", <<>>),
      Event("GitLab", "", "", FALSE, "tag_push", <<>>),
      Event("GitLab", "", "", FALSE, "", <<>>) }

\* the pushes that carry commits: event and index of the ref
PushCases ==
    { <<GitHubPush, 1>>, <<GitHubPush, 2>>, <<GitHubPush, 3>>, <<GitHubPush, 7>>,
      <<GitHubPushCreated, 1>>, <<GitHubPushCreated, 3>>, <<GitHubPushCreated, 4>>,
      <<GitHubPushCreated, 5>>, <<GitHubPushCreated, 6>>,
      <<GitLabPush, 1>>, <<GitLabPush, 7>>,
      <<GitLabPushNew, 3>>, <<GitLabPushNew, 6>> }

REPO_URL == "https://git.example/r"

WithBody(e, ref, commits) ==
    [event |-> e, ref |-> ref, commits |-> commits, repo_url |-> REPO_URL]

Payloads ==
    {WithBody(e, RefPool[r], <<>>) : e \in PlainEvents, r \in 1..Len(RefPool)}
      \cup {WithBody(e, BareRefPool[r], <<>>) : e \in PlainEvents, r \in 1..Len(BareRefPool)}
      \cup {WithBody(c[1], RefPool[c[2]], commits) :
                c \in PushCases, commits \in CommitLists(MaxCommits)}

\* the payloads of the invocations that run concurrently: pushes to one branch
\* whose commits reference the same tasks
ConcurrentPayloads ==
    { WithBody(GitHubPush, RefPool[1], <<CommitPool[1]>>),
      WithBody(GitHubPush, RefPool[1], <<CommitPool[3]>>),
      WithBody(GitLabPushNew, RefPool[6], <<CommitPool[1]>>),
      WithBody(GitHubPushCreated, RefPool[6], <<CommitPool[2], CommitPool[3]>>) }

NoPayload == WithBody(Event("", "", "", FALSE, "", <<>>), <<>>, <<>>)

(***************************************************************************)
(* An invocation: the handler's locals, its position (pc), the outbound    *)
(* calls it has issued (log) and its response (result; code 0 = none yet). *)
(***************************************************************************)
NoResult == [code |-> 0, status |-> ""]

NoLock == -1

Idle ==
    [pc |-> "idle", phase |-> "none", branch_name |-> <<>>,
     task_ids |-> <<>>, k |-> 0,
     ci |-> 0, commit_ids |-> <<>>, ti |-> 0, comment_text |-> <<>>,
     collected_ids |-> <<>>,
     status_key |-> None, unique_ids |-> <<>>, sk |-> 0, lock_version |-> NoLock,
     result |-> NoResult, log |-> <<>>]

\* the handler returns a JSON body with the given status
Return(s, status) == [s EXCEPT !.pc = "done", !.result = [code |-> 200, status |-> status]]

\* raise HTTPException(status_code=code)
Raise(s, code) == [s EXCEPT !.pc = "done", !.result = [code |-> code, status |-> "error"]]

\* one outbound call and the status code of its response (-1: RequestException)
Call(op, phase, task, code, body, token, href) ==
    [op |-> op, phase |-> phase, task |-> task, code |-> code,
     body |-> body, token |-> token, href |-> href, json |-> TRUE]

NETWORK_ERROR == -1

\* responses a POST of a comment can meet: status code, and whether the body
\* of a success response parses as JSON
CommentResponses ==
    { [code |-> NETWORK_ERROR, json |-> TRUE],
      [code |-> 404, json |-> TRUE],
      [code |-> 500, json |-> TRUE],
      [code |-> 201, json |-> TRUE],
      [code |-> 201, json |-> FALSE] }

\* add_comment_to_task with a 404 taken as benign, as update_task_status takes it
add_comment_to_task_404_benign(s, phase, task_id, comment, resp) ==
    IF ~configured THEN Raise(s, 500)
    ELSE LET call == Call("addComment", phase, task_id, resp.code, comment, NoLock, "")
             s1 == [s EXCEPT !.log = Append(@, [call EXCEPT !.json = resp.json])]
         IN  IF resp.code = NETWORK_ERROR THEN Raise(s1, 502)
             ELSE IF resp.code = 404 THEN s1
             ELSE IF resp.code >= 300 THEN Raise(s1, 500)
             ELSE IF ~resp.json THEN Raise(s1, 500)
             ELSE s1

\* add_comment_to_task that logs a failure of the POST and goes on
add_comment_to_task_swallow(s, phase, task_id, comment, resp) ==
    IF ~configured THEN Raise(s, 500)
    ELSE LET call == Call("addComment", phase, task_id, resp.code, comment, NoLock, "")
         IN  [s EXCEPT !.log = Append(@, [call EXCEPT !.json = resp.json])]

\* add_comment_to_task without the check of the URL and the credential
add_comment_to_task_unchecked(s, phase, task_id, comment, resp) ==
    LET call == Call("addComment", phase, task_id, resp.code, comment, NoLock, "")
        s1 == [s EXCEPT !.log = Append(@, [call EXCEPT !.json = resp.json])]
    IN  IF resp.code = NETWORK_ERROR THEN Raise(s1, 502)
        ELSE IF resp.code >= 300 THEN Raise(s1, 500)
        ELSE IF ~resp.json THEN Raise(s1, 500)
        ELSE s1

\* add_comment_to_task, given the response the POST meets; resp.json() of a body
\* that is not JSON raises an exception no handler catches (a 500 response)
add_comment_to_task(s, phase, task_id, comment, resp) ==
    IF ~configured THEN Raise(s, 500)
    ELSE LET call == Call("addComment", phase, task_id, resp.code, comment, NoLock, "")
             s1 == [s EXCEPT !.log = Append(@, [call EXCEPT !.json = resp.json])]
         IN  IF resp.code = NETWORK_ERROR THEN Raise(s1, 502)
             ELSE IF resp.code >= 300 THEN Raise(s1, 500)
             ELSE IF ~resp.json THEN Raise(s1, 500)
             ELSE s1

status_href(status_key) ==
    IF status_key \in DOMAIN STATUS_MAPPING /\ STATUS_MAPPING[status_key] # ""
    THEN STATUS_MAPPING[status_key]
    ELSE None

\* comment_text of process_commits for one commit
CommitComment(commit, message, source, branch_name) ==
    LET author == resolve_author(commit)
        source_branch == extract_source_branch_from_message(message, branch_name)
        branch_fragment == IF branch_name # <<>>
                           THEN <<" in '">> \o branch_name \o <<"'">> ELSE <<>>
        header == <<"New commit (", source, ")">> \o branch_fragment
                    \o <<" by ", author, ":">>
        from_line == IF source_branch # <<>>
                     THEN << <<"From branch '">> \o source_branch \o <<"'">> >> ELSE <<>>
        link == IF commit.url # "" THEN << <<>>, <<"Link: ", commit.url>> >> ELSE <<>>
        files == IF commit.files_line # "" THEN << <<>>, <<commit.files_line>> >> ELSE <<>>
    IN  JoinLines(<<header>> \o from_line \o << <<>>, message >> \o link \o files)

\* comment_text of notify_branch_creation
BranchComment(source, branch_name, branch_url) ==
    LET header == <<"Branch created (", source, "): '">> \o branch_name \o <<"'">>
        link == IF branch_url # <<>> THEN << <<>>, <<"Link: ">> \o branch_url >> ELSE <<>>
    IN  JoinLines(<<header>> \o link)

SourceOf(pl) == pl.event.provider

BranchUrl(pl, branch_name) ==
    IF pl.repo_url = "" THEN <<>>
    ELSE <<pl.repo_url, IF SourceOf(pl) = "GitHub" THEN "/tree/" ELSE "/-/tree/">>
           \o branch_name

RECURSIVE set_status_for_tasks(_, _, _, _, _)

\* the loop of process_commits from commit ci up to the next add_comment_to_task,
\* or, past the last commit, the rest of the handler
RECURSIVE process_commits(_, _, _)
process_commits(s, pl, ci) ==
    IF ci > Len(pl.commits)
    THEN set_status_for_tasks(s, pl, DictFromKeys(s.collected_ids),
                              derive_status_key_from_branch(s.branch_name), "push")
    ELSE LET commit == pl.commits[ci]
             message == Strip(commit.message)
             task_ids == iter_task_ids(message)
         IN  IF message = <<>> THEN process_commits(s, pl, ci + 1)
             ELSE IF task_ids = <<>> THEN process_commits(s, pl, ci + 1)
             ELSE [s EXCEPT !.pc = "commit_comment", !.phase = "push", !.ci = ci,
                            !.commit_ids = task_ids, !.ti = 1,
                            !.comment_text = CommitComment(commit, message, SourceOf(pl),
                                                           s.branch_name)]

\* a handler that returns once the branch creation is recorded, whatever the event
AfterNotify_return(s, pl) == Return(s, "ok")

\* what follows notify_branch_creation in the handler
AfterNotify(s, pl) ==
    IF pl.event.event = "create" THEN Return(s, "ok")
    ELSE process_commits(s, pl, 1)

\* what follows set_status_for_tasks in the handler
AfterSetStatus(s, pl, phase) ==
    IF phase = "branch" THEN AfterNotify(s, pl) ELSE Return(s, "ok")

\* set_status_for_tasks with the configuration checked before anything else
set_status_for_tasks_config_first(s, pl, task_ids, status_key, phase) ==
    LET unique_ids == DictFromKeys(task_ids)
    IN  IF ~configured THEN Raise(s, 500)
        ELSE IF status_key = None \/ status_key \notin DOMAIN STATUS_MAPPING
        THEN AfterSetStatus(s, pl, phase)
        ELSE IF unique_ids = <<>> THEN AfterSetStatus(s, pl, phase)
        ELSE [s EXCEPT !.pc = "fetch", !.phase = phase, !.unique_ids = unique_ids,
                       !.status_key = status_key, !.sk = 1, !.lock_version = NoLock]

\* set_status_for_tasks up to the first update_task_status
set_status_for_tasks(s, pl, task_ids, status_key, phase) ==
    LET unique_ids == DictFromKeys(task_ids)
    IN  IF status_key = None \/ status_key \notin DOMAIN STATUS_MAPPING
        THEN AfterSetStatus(s, pl, phase)
        ELSE IF unique_ids = <<>> THEN AfterSetStatus(s, pl, phase)
        ELSE [s EXCEPT !.pc = "fetch", !.phase = phase, !.unique_ids = unique_ids,
                       !.status_key = status_key, !.sk = 1, !.lock_version = NoLock]

\* notify_branch_creation without the deduplication of its task ids
notify_branch_creation_no_dedup(s, pl, task_ids, branch_name, source, branch_url) ==
    IF task_ids = <<>> THEN AfterNotify(s, pl)
    ELSE [s EXCEPT !.pc = "notify_comment", !.phase = "branch", !.task_ids = task_ids,
                   !.k = 1,
                   !.comment_text = BranchComment(source, branch_name, branch_url)]

\* notify_branch_creation up to the first add_comment_to_task
notify_branch_creation(s, pl, task_ids, branch_name, source, branch_url) ==
    LET ids == DictFromKeys(task_ids)
    IN  IF ids = <<>> THEN AfterNotify(s, pl)
        ELSE [s EXCEPT !.pc = "notify_comment", !.phase = "branch", !.task_ids = ids,
                       !.k = 1,
                       !.comment_text = BranchComment(source, branch_name, branch_url)]

\* the branch-creation part shared by both push handlers
BranchDetected(s, pl) ==
    LET task_ids == iter_branch_task_ids(s.branch_name)
    IN  IF task_ids # <<>>
        THEN notify_branch_creation(s, pl, task_ids, s.branch_name, SourceOf(pl),
                                    BranchUrl(pl, s.branch_name))
        ELSE process_commits(s, pl, 1)

\* github_webhook from the verified request up to its first outbound call
github_webhook(s0, pl) ==
    LET s == [s0 EXCEPT !.branch_name = extract_branch_name(pl.ref)]
        event == pl.event.event
        task_ids == iter_branch_task_ids(s.branch_name)
    IN  IF event = "ping" THEN Return(s, "ok")
        ELSE IF event = "create"
             THEN IF pl.event.ref_type # "branch" THEN Return(s, "ignored")
                  ELSE IF task_ids = <<>> THEN Return(s, "ignored")
                  ELSE notify_branch_creation(s, pl, task_ids, s.branch_name, "GitHub",
                                              BranchUrl(pl, s.branch_name))
        ELSE IF event # "" /\ event # "push" THEN Return(s, "ignored")
        ELSE IF pl.event.created THEN BranchDetected(s, pl)
        ELSE process_commits(s, pl, 1)

\* a missing "before" taken for a new branch as well
IsNewBranch_or_absent(before) == \A p \in 1..Len(before) : before[p] = "0"

\* before.strip("0") == "" and before != ""
IsNewBranch(before) == before # <<>> /\ \A p \in 1..Len(before) : before[p] = "0"

\* gitlab_webhook from the verified request up to its first outbound call
gitlab_webhook(s0, pl) ==
    LET event == pl.event.event
        object_kind == pl.event.object_kind
        s == [s0 EXCEPT !.branch_name = extract_branch_name(pl.ref)]
    IN  IF event \in {"ping", "system hook"} THEN Return(s0, "ok")
        ELSE IF event # "" /\ event \notin {"push hook"} THEN Return(s0, "ignored")
        ELSE IF object_kind # "" /\ object_kind # "push" THEN Return(s0, "ignored")
        ELSE IF IsNewBranch(pl.event.before) THEN BranchDetected(s, pl)
        ELSE process_commits(s, pl, 1)

(***************************************************************************)
(* The tracker (work-item service) as the handlers see it.                 *)
(***************************************************************************)
Tasks == {0, 7, 10, 20}

\* responses a GET of a work package can meet: status code and lockVersion
\* (NoLock: the body has no lockVersion)
FetchResponses(task_id) ==
    { [code |-> NETWORK_ERROR, lockVersion |-> NoLock],
      [code |-> 404, lockVersion |-> NoLock],
      [code |-> 500, lockVersion |-> NoLock],
      [code |-> 200, lockVersion |-> NoLock],
      [code |-> 200, lockVersion |-> lockVersion[task_id]] }

\* status codes a PATCH carrying the given lockVersion can meet: the tracker
\* accepts it only with the current revision and answers 409 to a stale one
PatchCodes(task_id, token) ==
    {NETWORK_ERROR, 404, 500} \cup (IF token = lockVersion[task_id] THEN {200} ELSE {409})

(***************************************************************************)
(* Actions: one per outbound call of a handler, each running the handler   *)
(* on to its next outbound call or to its response.                        *)
(***************************************************************************)
Active == {i \in Invocations : inv[i].pc \notin {"idle", "done"}}

\* a request arrives; verify_signature / verify_gitlab_token, then the handler
\* up to its first outbound call
Receive(i) ==
    /\ inv[i].pc = "idle"
    /\ i <= concurrency
    /\ \A j \in Invocations : j < i => inv[j].pc # "idle"
    /\ \E pl \in (IF concurrency = 1 THEN Payloads ELSE ConcurrentPayloads),
          verified \in BOOLEAN :
          /\ payload' = [payload EXCEPT ![i] = pl]
          /\ inv' = [inv EXCEPT ![i] =
                        IF ~verified THEN Raise(Idle, 403)
                        ELSE IF pl.event.provider = "GitHub" THEN github_webhook(Idle, pl)
                        ELSE gitlab_webhook(Idle, pl)]
    /\ UNCHANGED <<STATUS_MAPPING, configured, concurrency, lockVersion, wpStatus,
                   text, target_branch, value, fn, out>>

\* add_comment_to_task inside the loop of notify_branch_creation
NotifyComment(i) ==
    LET s == inv[i]
        pl == payload[i]
    IN  /\ s.pc = "notify_comment"
        /\ \E resp \in CommentResponses :
              LET s1 == add_comment_to_task(s, "branch", s.task_ids[s.k],
                                            s.comment_text, resp)
              IN  inv' = [inv EXCEPT ![i] =
                            IF s1.pc = "done" THEN s1
                            ELSE IF s.k < Len(s.task_ids) THEN [s1 EXCEPT !.k = s.k + 1]
                            ELSE set_status_for_tasks(s1, pl, s.task_ids,
                                                      "in_progress", "branch")]
        /\ UNCHANGED <<STATUS_MAPPING, configured, concurrency, payload, lockVersion,
                       wpStatus, text, target_branch, value, fn, out>>

\* add_comment_to_task inside the loop of process_commits
PostCommitComment(i) ==
    LET s == inv[i]
        pl == payload[i]
        task_id == s.commit_ids[s.ti]
        s0 == [s EXCEPT !.collected_ids = Append(@, task_id)]
    IN  /\ s.pc = "commit_comment"
        /\ \E resp \in CommentResponses :
              LET s1 == add_comment_to_task(s0, "push", task_id, s.comment_text, resp)
              IN  inv' = [inv EXCEPT ![i] =
                            IF s1.pc = "done" THEN s1
                            ELSE IF s.ti < Len(s.commit_ids)
                                 THEN [s1 EXCEPT !.ti = s.ti + 1]
                            ELSE process_commits(s1, pl, s.ci + 1)]
        /\ UNCHANGED <<STATUS_MAPPING, configured, concurrency, payload, lockVersion,
                       wpStatus, text, target_branch, value, fn, out>>

\* NextTask with the loop left after its first task
NextTask_first_only(s, pl) == AfterSetStatus(s, pl, s.phase)

\* the loop of set_status_for_tasks moves past the current task
NextTask(s, pl) ==
    IF s.sk < Len(s.unique_ids)
    THEN [s EXCEPT !.pc = "fetch", !.sk = s.sk + 1, !.lock_version = NoLock]
    ELSE AfterSetStatus(s, pl, s.phase)

\* update_task_status_fetch without the early return on a 404 of the GET
update_task_status_fetch_no_404(s, pl, task_id, resp) ==
    LET href == status_href(s.status_key)
        s1 == [s EXCEPT !.log = Append(@, Call("getWorkItem", s.phase, task_id, resp.code,
                                                <<>>, resp.lockVersion, ""))]
    IN  IF href = None THEN NextTask(s, pl)
        ELSE IF ~configured THEN Raise(s, 500)
        ELSE IF resp.code = NETWORK_ERROR THEN Raise(s1, 502)
        ELSE IF resp.code >= 300 /\ resp.code # 404 THEN Raise(s1, 500)
        ELSE [s1 EXCEPT !.pc = "patch", !.lock_version = resp.lockVersion]

\* update_task_status from its start to the PATCH, given the response of the GET
update_task_status_fetch(s, pl, task_id, resp) ==
    LET href == status_href(s.status_key)
        s1 == [s EXCEPT !.log = Append(@, Call("getWorkItem", s.phase, task_id, resp.code,
                                                <<>>, resp.lockVersion, ""))]
    IN  IF href = None THEN NextTask(s, pl)
        ELSE IF ~configured THEN Raise(s, 500)
        ELSE IF resp.code = NETWORK_ERROR THEN Raise(s1, 502)
        ELSE IF resp.code = 404 THEN NextTask(s1, pl)
        ELSE IF resp.code >= 300 THEN Raise(s1, 500)
        ELSE IF resp.lockVersion = NoLock THEN Raise(s1, 500)
        ELSE [s1 EXCEPT !.pc = "patch", !.lock_version = resp.lockVersion]

\* update_task_status_patch taking only a 5xx status of the PATCH as an error
update_task_status_patch_5xx_only(s, pl, task_id, code) ==
    LET s1 == [s EXCEPT !.log = Append(@, Call("updateStatus", s.phase, task_id, code,
                                                <<>>, s.lock_version,
                                                status_href(s.status_key)))]
    IN  IF code = NETWORK_ERROR THEN Raise(s1, 502)
        ELSE IF code = 404 THEN NextTask(s1, pl)
        ELSE IF code >= 500 THEN Raise(s1, 500)
        ELSE NextTask(s1, pl)

\* update_task_status_patch without the early return on a 404 of the PATCH
update_task_status_patch_no_404(s, pl, task_id, code) ==
    LET s1 == [s EXCEPT !.log = Append(@, Call("updateStatus", s.phase, task_id, code,
                                                <<>>, s.lock_version,
                                                status_href(s.status_key)))]
    IN  IF code = NETWORK_ERROR THEN Raise(s1, 502)
        ELSE IF code >= 300 THEN Raise(s1, 500)
        ELSE NextTask(s1, pl)

\* update_task_status from the PATCH to its end, given the response's status code
update_task_status_patch(s, pl, task_id, code) ==
    LET s1 == [s EXCEPT !.log = Append(@, Call("updateStatus", s.phase, task_id, code,
                                                <<>>, s.lock_version,
                                                status_href(s.status_key)))]
    IN  IF code = NETWORK_ERROR THEN Raise(s1, 502)
        ELSE IF code = 404 THEN NextTask(s1, pl)
        ELSE IF code >= 300 THEN Raise(s1, 500)
        ELSE NextTask(s1, pl)

\* requests.get of update_task_status
Fetch(i) ==
    LET s == inv[i]
        task_id == s.unique_ids[s.sk]
    IN  /\ s.pc = "fetch"
        /\ \E resp \in FetchResponses(task_id) :
              inv' = [inv EXCEPT ![i] = update_task_status_fetch(s, payload[i], task_id, resp)]
        /\ UNCHANGED <<STATUS_MAPPING, configured, concurrency, payload, lockVersion,
                       wpStatus, text, target_branch, value, fn, out>>

\* requests.patch of update_task_status
Patch(i) ==
    LET s == inv[i]
        task_id == s.unique_ids[s.sk]
    IN  /\ s.pc = "patch"
        /\ \E code \in PatchCodes(task_id, s.lock_version) :
              /\ inv' = [inv EXCEPT ![i] =
                            update_task_status_patch(s, payload[i], task_id, code)]
              /\ IF code = 200
                 THEN /\ lockVersion' = [lockVersion EXCEPT ![task_id] = @ + 1]
                      /\ wpStatus' = [wpStatus EXCEPT ![task_id] = status_href(s.status_key)]
                 ELSE UNCHANGED <<lockVersion, wpStatus>>
        /\ UNCHANGED <<STATUS_MAPPING, configured, concurrency, payload, text, target_branch, value, fn, out>>

(***************************************************************************)
(* Pure functions applied on their own to a text.                          *)
(***************************************************************************)
Fragments ==
    << <<"#">>, <<"7">>, <<"0", "7">>, <<"0">>, <<" ">>, <<"-">>,
       <<"p", "u", "l", "l", " ", "r", "e", "q", "u", "e", "s", "t", " ">>, <<"x">>,
       <<"P", "u", "l", "l", "-", "R", "e", "q", "u", "e", "s", "t", " ">> >>

RECURSIVE Concat(_)
Concat(parts) == IF parts = <<>> THEN <<>> ELSE Fragments[Head(parts)] \o Concat(Tail(parts))

Texts == {Concat(q) : q \in SeqsUpTo(Len(Fragments), MaxParts)}

\* texts the functions are documented on
ExampleTexts ==
    { <<"M", "e", "r", "g", "e", " ", "p", "u", "l", "l", " ", "r", "e", "q", "u", "e", "s", "t", " ", "#", "4", "2", " ", "f", "r", "o", "m", " ", "u", "s", "e", "r", "/", "f", "i", "x", "-", "#", "7">>,
      <<"t", "a", "s", "k", "-", "1", "2", "3", "-", "l", "o", "g", "i", "n">>,
      <<"f", "e", "a", "t", "u", "r", "e", "/", "n", "o", "-", "n", "u", "m", "b", "e", "r", "s">> }

ApplyIterTaskIds ==
    /\ fn = "none"
    /\ fn' = "iter_task_ids"
    /\ out' = iter_task_ids(text)
    /\ UNCHANGED <<STATUS_MAPPING, configured, concurrency, payload, inv,
                   lockVersion, wpStatus, text, target_branch, value>>

ApplyIterBranchTaskIds ==
    /\ fn = "none"
    /\ fn' = "iter_branch_task_ids"
    /\ out' = iter_branch_task_ids(text)
    /\ UNCHANGED <<STATUS_MAPPING, configured, concurrency, payload, inv,
                   lockVersion, wpStatus, text, target_branch, value>>

(***************************************************************************)
(* Inputs of extract_source_branch_from_message: merge summaries of the    *)
(* three shapes and a plain line, up to MaxShapes of them in one message.  *)
(***************************************************************************)
MergePullRequest(head) ==
    <<"M", "e", "r", "g", "e", " ", "p", "u", "l", "l", " ", "r", "e", "q", "u", "e", "s", "t", " ", "#", "1", " ", "f", "r", "o", "m", " ">> \o head

MergeBranch(source, target) ==
    <<"M", "E", "R", "G", "E", " ", "b", "r", "a", "n", "c", "h", " ", "'">> \o source
       \o <<"'", " ", "i", "n", "t", "o", " ", "'">> \o target \o <<"'">>

MergeRemoteTracking(source) ==
    <<"M", "e", "r", "g", "e", " ", "r", "e", "m", "o", "t", "e", "-", "t", "r", "a", "c", "k", "i", "n", "g", " ", "b", "r", "a", "n", "c", "h", " ", "'">>
       \o source \o <<"'">>

B_MAIN == <<"m", "a", "i", "n">>
B_DEV == <<"d", "e", "v">>

ORIGIN_DEV == <<"o", "r", "i", "g", "i", "n", "/", "d", "e", "v">>
A_ORIGIN_B == <<"a", "/", "o", "r", "i", "g", "i", "n", "/", "b">>

\* <owner>/<branch> of a pull-request summary
HeadPool == {<<"o", "/", "m", "a", "i", "n">>, <<"o", "/", "x", "/", "d", "e", "v">>}

\* quoted sources of the "Merge branch" shape
SourcePool == {B_DEV, ORIGIN_DEV, A_ORIGIN_B, <<"o", "r", "i", "g", "i", "n", "/">>, <<" ">>}

\* quoted sources of the "Merge remote-tracking branch" shape
RemotePool == {B_DEV, ORIGIN_DEV, A_ORIGIN_B}

Shapes ==
    {MergePullRequest(h) : h \in HeadPool}
      \cup {MergeBranch(src, B_MAIN) : src \in SourcePool}
      \cup {MergeRemoteTracking(src) : src \in RemotePool}
      \cup { <<"w", "i", "p">> }

\* the shapes of a message joined by sep
RECURSIVE JoinWith(_, _)
JoinWith(parts, sep) ==
    IF parts = <<>> THEN <<>>
    ELSE IF Len(parts) = 1 THEN parts[1]
    ELSE parts[1] \o sep \o JoinWith(Tail(parts), sep)

RECURSIVE ShapeLists(_)
ShapeLists(m) ==
    IF m = 0 THEN {<<>>}
    ELSE LET shorter == ShapeLists(m - 1)
         IN  shorter \cup {Append(q, sh) : q \in {r \in shorter : Len(r) = m - 1}, sh \in Shapes}

MergeMessages ==
    {JoinWith(q, sep) : q \in ShapeLists(MaxShapes), sep \in {<<" ">>, <<"\n">>}}

TargetBranches == {<<>>, B_MAIN, B_DEV}

ApplyExtractSourceBranch ==
    /\ fn = "none"
    /\ fn' = "extract_source_branch_from_message"
    /\ out' = extract_source_branch_from_message(text, target_branch)
    /\ UNCHANGED <<STATUS_MAPPING, configured, concurrency, payload, inv,
                   lockVersion, wpStatus, text, target_branch, value>>

(***************************************************************************)
(* Inputs of derive_status_key_from_branch: branch names of up to MaxParts *)
(* fragments, and the documented ones.                                     *)
(***************************************************************************)
BranchFragments ==
    << <<"m", "a", "i", "n">>, <<"M", "a", "s", "t", "e", "r">>, <<"D", "E", "V">>,
       <<"/">>, <<"x">>, <<" ">> >>

RECURSIVE BranchConcat(_)
BranchConcat(parts) ==
    IF parts = <<>> THEN <<>>
    ELSE BranchFragments[Head(parts)] \o BranchConcat(Tail(parts))

BranchNames ==
    {BranchConcat(q) : q \in SeqsUpTo(Len(BranchFragments), MaxParts)}
      \cup { <<"f", "e", "a", "t", "u", "r", "e", "/", "m", "a", "i", "n">>,
             <<"r", "e", "l", "e", "a", "s", "e", "/", "D", "e", "v">> }

ApplyDeriveStatusKey ==
    /\ fn = "none"
    /\ fn' = "derive_status_key_from_branch"
    /\ out' = derive_status_key_from_branch(text)
    /\ UNCHANGED <<STATUS_MAPPING, configured, concurrency, payload, inv,
                   lockVersion, wpStatus, text, target_branch, value>>

(***************************************************************************)
(* The status mapping document. A JSON value is a record of its kind, its  *)
(* number (for int, and 1 or 0 for a bool) and its text (for a string).    *)
(***************************************************************************)
JsonInt(n) == [kind |-> "int", num |-> n, text |-> <<>>]
JsonBool(b) == [kind |-> "bool", num |-> IF b THEN 1 ELSE 0, text |-> <<>>]
JsonString(t) == [kind |-> "str", num |-> 0, text |-> t]
JsonOther(kind) == [kind |-> kind, num |-> 0, text |-> <<>>]

STATUSES_PATH == <<"/", "a", "p", "i", "/", "v", "3", "/", "s", "t", "a", "t", "u", "s", "e", "s", "/">>

\* str(n) of a natural number
RECURSIVE NatToText(_)
NatToText(n) ==
    IF n < 10 THEN <<Digits[n + 1]>>
    ELSE NatToText(n \div 10) \o <<Digits[(n % 10) + 1]>>

\* f"{value}" of an int or a bool
Formatted(v) ==
    IF v.kind = "bool"
    THEN (IF v.num = 1 THEN <<"T", "r", "u", "e">> ELSE <<"F", "a", "l", "s", "e">>)
    ELSE IF v.num < 0 THEN <<"-">> \o NatToText(0 - v.num)
    ELSE NatToText(v.num)

\* str.isdigit() of a non-empty text
IsDigitText(t) == t # <<>> /\ \A p \in 1..Len(t) : IsDigit(t[p])

\* the empty text stands for the None result; a bool is an instance of int
normalize_status_value(v) ==
    IF v.kind \in {"int", "bool"} THEN STATUSES_PATH \o Formatted(v)
    ELSE IF v.kind = "str"
    THEN LET raw == Strip(v.text)
         IN  IF raw = <<>> THEN <<>>
             ELSE IF IsDigitText(raw) THEN STATUSES_PATH \o raw
             ELSE IF StartsWith(raw, <<"h", "t", "t", "p">>)
                     \/ StartsWith(raw, <<"/", "a", "p", "i", "/">>) THEN raw
             ELSE IF StartsWith(raw, <<"/">>) THEN raw
             ELSE <<>>
    ELSE <<>>

\* the mapping file: missing, unreadable or not JSON, or parsed to a value
\* that is a dict (with members) or not
MappingFile(state, top, members) == [state |-> state, top |-> top, members |-> members]

load_status_mapping(file) ==
    IF file.state # "parsed" \/ file.top # "dict" THEN <<>>
    ELSE LET kept == {k \in DOMAIN file.members :
                         normalize_status_value(file.members[k]) # <<>>}
         IN  [k \in kept |-> normalize_status_value(file.members[k])]

JsonValues ==
    {JsonInt(5), JsonInt(0), JsonInt(12), JsonInt(-3), JsonBool(TRUE), JsonBool(FALSE),
     JsonOther("null"), JsonOther("list"), JsonOther("dict"), JsonOther("float"),
     JsonString(<<"5">>), JsonString(<<"1", "2">>), JsonString(<<" ", "5", " ">>),
     JsonString(<<>>), JsonString(<<" ">>), JsonString(<<"-", "3">>),
     JsonString(<<"n", "o", "t", "-", "a", "-", "n", "u", "m", "b", "e", "r", "-", "o", "r", "-", "p", "a", "t", "h">>),
     JsonString(<<"h", "t", "t", "p", "s", ":", "/", "/", "o", "p", ".", "e", "x", "a", "m", "p", "l", "e", "/", "s", "/", "3">>),
     JsonString(<<"/", "a", "p", "i", "/", "v", "3", "/", "s", "t", "a", "t", "u", "s", "e", "s", "/", "7">>),
     JsonString(<<"/", "x">>),
     JsonString(<<" ", "/", "x">>)}

MappingKeys == {"completed", "in_progress"}

MappingFiles ==
    {MappingFile("missing", "", <<>>), MappingFile("unparsable", "", <<>>),
     MappingFile("parsed", "list", <<>>), MappingFile("parsed", "dict", <<>>)}
      \cup {MappingFile("parsed", "dict", [k \in keys |-> m[k]]) :
                keys \in (SUBSET MappingKeys) \ {{}}, m \in [MappingKeys -> JsonValues]}

ApplyNormalizeStatusValue ==
    /\ fn = "none"
    /\ "kind" \in DOMAIN value
    /\ fn' = "normalize_status_value"
    /\ out' = normalize_status_value(value)
    /\ UNCHANGED <<STATUS_MAPPING, configured, concurrency, payload, inv,
                   lockVersion, wpStatus, text, target_branch, value>>

ApplyLoadStatusMapping ==
    /\ fn = "none"
    /\ "state" \in DOMAIN value
    /\ fn' = "load_status_mapping"
    /\ out' = load_status_mapping(value)
    /\ UNCHANGED <<STATUS_MAPPING, configured, concurrency, payload, inv,
                   lockVersion, wpStatus, text, target_branch, value>>

(***************************************************************************)
(* Inputs of resolve_author: commit records with a nested author object, a *)
(* string author or none, and with the flat author fields.                 *)
(***************************************************************************)
AuthorString(name) == [kind |-> "str", name |-> name, username |-> "", email |-> ""]

AuthorShapes ==
    {AuthorDict(n, u, e) : n \in {"", "Ann"}, u \in {"", "ann"}, e \in {"", "a@example.org"}}
      \cup {AuthorString(""), AuthorString("Joe"), AuthorAbsent}

AuthorCommits ==
    {[author |-> a, author_name |-> n, author_username |-> u, author_email |-> e] :
        a \in AuthorShapes, n \in {"", "Flat"}, u \in {"", "flat"}, e \in {"", "f@example.org"}}

ApplyResolveAuthor ==
    /\ fn = "none"
    /\ fn' = "resolve_author"
    /\ out' = resolve_author(value)
    /\ UNCHANGED <<STATUS_MAPPING, configured, concurrency, payload, inv,
                   lockVersion, wpStatus, text, target_branch, value>>

(***************************************************************************)
(* Specifications.                                                         *)
(***************************************************************************)
InitCommon ==
    /\ payload = [i \in Invocations |-> NoPayload]
    /\ inv = [i \in Invocations |-> Idle]
    /\ lockVersion = [t \in Tasks |-> t + 1]
    /\ wpStatus = [t \in Tasks |-> ""]
    /\ out = <<>>

\* one webhook invocation at a time
Init ==
    /\ InitCommon
    /\ STATUS_MAPPING \in Mappings
    /\ configured \in BOOLEAN
    /\ concurrency = 1
    /\ text = <<>>
    /\ target_branch = <<>>
    /\ value = <<>>
    /\ fn = "off"

Next ==
    \/ \E i \in Invocations : Receive(i)
    \/ \E i \in Invocations : NotifyComment(i)
    \/ \E i \in Invocations : PostCommitComment(i)
    \/ \E i \in Invocations : Fetch(i)
    \/ \E i \in Invocations : Patch(i)

Spec == Init /\ [][Next]_vars

\* two webhook invocations running concurrently
InitConc ==
    /\ InitCommon
    /\ STATUS_MAPPING = [k \in StatusKeys |-> HrefOf(k)]
    /\ configured = TRUE
    /\ concurrency = 2
    /\ text = <<>>
    /\ target_branch = <<>>
    /\ value = <<>>
    /\ fn = "off"

SpecConc == InitConc /\ [][Next]_vars

\* the text functions on their own
InitText ==
    /\ InitCommon
    /\ STATUS_MAPPING = [k \in StatusKeys |-> HrefOf(k)]
    /\ configured = TRUE
    /\ concurrency = 0
    /\ text \in Texts \cup ExampleTexts
    /\ target_branch = <<>>
    /\ value = <<>>
    /\ fn = "none"

NextText ==
    \/ ApplyIterTaskIds
    \/ ApplyIterBranchTaskIds

SpecText == InitText /\ [][NextText]_vars

\* derive_status_key_from_branch on its own
InitBranch ==
    /\ InitCommon
    /\ STATUS_MAPPING = [k \in StatusKeys |-> HrefOf(k)]
    /\ configured = TRUE
    /\ concurrency = 0
    /\ text \in BranchNames
    /\ target_branch = <<>>
    /\ value = <<>>
    /\ fn = "none"

NextBranch == ApplyDeriveStatusKey

SpecBranch == InitBranch /\ [][NextBranch]_vars

\* normalize_status_value and load_status_mapping on their own
InitMapping ==
    /\ InitCommon
    /\ STATUS_MAPPING = [k \in StatusKeys |-> HrefOf(k)]
    /\ configured = TRUE
    /\ concurrency = 0
    /\ text = <<>>
    /\ target_branch = <<>>
    /\ value \in JsonValues \cup MappingFiles
    /\ fn = "none"

NextMapping ==
    \/ ApplyNormalizeStatusValue
    \/ ApplyLoadStatusMapping

SpecMapping == InitMapping /\ [][NextMapping]_vars

\* resolve_author on its own
InitAuthor ==
    /\ InitCommon
    /\ STATUS_MAPPING = [k \in StatusKeys |-> HrefOf(k)]
    /\ configured = TRUE
    /\ concurrency = 0
    /\ text = <<>>
    /\ target_branch = <<>>
    /\ value \in AuthorCommits
    /\ fn = "none"

NextAuthor == ApplyResolveAuthor

SpecAuthor == InitAuthor /\ [][NextAuthor]_vars

\* extract_source_branch_from_message on its own
InitMerge ==
    /\ InitCommon
    /\ STATUS_MAPPING = [k \in StatusKeys |-> HrefOf(k)]
    /\ configured = TRUE
    /\ concurrency = 0
    /\ text \in MergeMessages
    /\ target_branch \in TargetBranches
    /\ value = <<>>
    /\ fn = "none"

NextMerge == ApplyExtractSourceBranch

SpecMerge == InitMerge /\ [][NextMerge]_vars

(***************************************************************************)
(* Vocabulary of the properties.                                           *)
(***************************************************************************)
Done(i) == inv[i].pc = "done"

EndedOk(i) == Done(i) /\ inv[i].result = [code |-> 200, status |-> "ok"]

Succeeded(call) == call.code \in 200..299

AllSucceeded(i) == \A n \in 1..Len(inv[i].log) : Succeeded(inv[i].log[n])

IsStatusCall(call) == call.op \in {"getWorkItem", "updateStatus"}

\* the calls of invocation i with the given operation in the given phase
CallsOf(i, op, phase) ==
    LET Wanted(call) == call.op = op /\ call.phase = phase
    IN  SelectSeq(inv[i].log, Wanted)

TasksOf(calls) == [n \in 1..Len(calls) |-> calls[n].task]

\* the event reaches process_commits when its request is verified
IsPushFlow(pl) ==
    \/ pl.event.provider = "GitHub" /\ pl.event.event \in {"", "push"}
    \/ /\ pl.event.provider = "GitLab"
       /\ pl.event.event \in {"", "push hook"}
       /\ pl.event.object_kind \in {"", "push"}

RECURSIVE Flatten(_)
Flatten(seqs) == IF seqs = <<>> THEN <<>> ELSE Head(seqs) \o Flatten(Tail(seqs))

\* the integer identifiers a text references, one per kept match, in order
KeptIds(t) ==
    LET ms == TASK_ID_PATTERN_finditer(t, 1)
        Kept(m) == ~IsPrNumber(t, m)
        kept == SelectSeq(ms, Kept)
    IN  [n \in 1..Len(kept) |-> IntOf(kept[n].raw)]

\* the distinct task identifiers of a commit, in order of first appearance
CommitIdentifiers(commit) == DictFromKeys(KeptIds(Strip(commit.message)))

\* the (commit, identifier) pairs of a commit list, in order
CommentPairs(commits) ==
    Flatten([c \in 1..Len(commits) |->
               [n \in 1..Len(CommitIdentifiers(commits[c])) |->
                   <<c, CommitIdentifiers(commits[c])[n]>>]])

\* the task ids that the commits of a payload reference, as the handler collects them
ReferencedIds(pl) ==
    DictFromKeys(Flatten([c \in 1..Len(pl.commits) |->
                            iter_task_ids(Strip(pl.commits[c].message))]))

\* the event is a branch creation when its request is verified
IsBranchCreation(pl) ==
    \/ /\ pl.event.provider = "GitHub"
       /\ \/ pl.event.event = "create" /\ pl.event.ref_type = "branch"
          \/ pl.event.event \in {"", "push"} /\ pl.event.created
    \/ IsPushFlow(pl) /\ pl.event.provider = "GitLab" /\ IsNewBranch(pl.event.before)

\* the task ids notifyBranchCreated is to handle for a payload
NotifyIds(pl) ==
    IF IsBranchCreation(pl)
    THEN DictFromKeys(iter_branch_task_ids(extract_branch_name(pl.ref)))
    ELSE <<>>

\* the task ids applyStatus is given in a phase of an invocation
PhaseIds(i, phase) ==
    IF phase = "branch" THEN NotifyIds(payload[i]) ELSE ReferencedIds(payload[i])

(***************************************************************************)
(* C1: when process_commits has run to its end, the addComment calls it    *)
(* issued are exactly one per (commit, identifier) pair, in commit list    *)
(* order and, within a commit, in order of first appearance.               *)
(***************************************************************************)
C1_OneCommentPerPair ==
    \A i \in Invocations :
        (EndedOk(i) /\ IsPushFlow(payload[i]))
            => LET pairs == CommentPairs(payload[i].commits)
               IN  TasksOf(CallsOf(i, "addComment", "push"))
                      = [n \in 1..Len(pairs) |-> pairs[n][2]]

(***************************************************************************)
(* C9: iter_task_ids returns no identifier twice, and returns the          *)
(* identifiers in order of first appearance in the text.                   *)
(***************************************************************************)
C9_UniqueInFirstAppearanceOrder ==
    fn = "iter_task_ids" => out = DictFromKeys(KeptIds(text))

(***************************************************************************)
(* C10: every task id passed to addComment, getWorkItem or updateStatus    *)
(* is an integer >= 1.                                                     *)
(***************************************************************************)
C10_TaskIdsPositive ==
    \A i \in Invocations :
        \A n \in 1..Len(inv[i].log) : inv[i].log[n].task >= 1

\* the status key a push on the branch of a payload is given
PushKey(pl) == derive_status_key_from_branch(extract_branch_name(pl.ref))

\* the read-then-update pairs of a list of tasks, as <<operation, task>>
ReadThenUpdate(ids) ==
    Flatten([n \in 1..Len(ids) |-> << <<"getWorkItem", ids[n]>>, <<"updateStatus", ids[n]>> >>])

\* the calls of invocation i in the given phase, as <<operation, task>>
PhaseCalls(i, phase) ==
    LET InPhase(call) == call.phase = phase
        calls == SelectSeq(inv[i].log, InPhase)
    IN  [n \in 1..Len(calls) |-> <<calls[n].op, calls[n].task>>]

(***************************************************************************)
(* C2: a push on a branch whose derived status key is mapped, all tracker  *)
(* calls succeeding: the calls of the push are the commit comments         *)
(* followed by one getWorkItem/updateStatus pair for each distinct         *)
(* referenced task, in first-seen order, each update carrying the mapped   *)
(* reference of the derived key.                                           *)
(***************************************************************************)
C2_StatusAfterComments ==
    \A i \in Invocations :
        LET pl == payload[i]
            comments == CallsOf(i, "addComment", "push")
            updates == CallsOf(i, "updateStatus", "push")
        IN  (/\ EndedOk(i) /\ IsPushFlow(pl) /\ AllSucceeded(i)
             /\ PushKey(pl) \in DOMAIN STATUS_MAPPING)
                => /\ PhaseCalls(i, "push")
                        = [n \in 1..Len(comments) |-> <<"addComment", comments[n].task>>]
                             \o ReadThenUpdate(ReferencedIds(pl))
                   /\ \A n \in 1..Len(updates) :
                         updates[n].href = STATUS_MAPPING[PushKey(pl)]

\* the push of the commits "#10 #10" and "#20" to main has ended
C2_Witness ==
    /\ EndedOk(1) /\ AllSucceeded(1)
    /\ payload[1].ref = RefPool[1]
    /\ payload[1].commits = <<CommitPool[1], CommitPool[2]>>
    /\ TasksOf(CallsOf(1, "addComment", "push")) = <<10, 20>>
    /\ TasksOf(CallsOf(1, "updateStatus", "push")) = <<10, 20>>
    /\ \A n \in 1..2 : CallsOf(1, "updateStatus", "push")[n].href = HrefOf("completed")

\* the key under which applyStatus runs in a phase of an invocation
PhaseKey(i, phase) == IF phase = "branch" THEN "in_progress" ELSE PushKey(payload[i])

IsPrefix(a, b) == Len(a) <= Len(b) /\ a = SubSeq(b, 1, Len(a))

(***************************************************************************)
(* C3: within one applyStatus the tasks are read once each, in first-seen  *)
(* order; every updateStatus directly follows a successful getWorkItem of  *)
(* the same task and carries the revision token that read returned and the *)
(* mapped reference of the status key, never the key itself.               *)
(***************************************************************************)
C3_ReadModifyWrite ==
    \A i \in Invocations : \A phase \in {"branch", "push"} :
        LET log == inv[i].log
        IN  /\ CallsOf(i, "getWorkItem", phase) # <<>>
                   => IsPrefix(TasksOf(CallsOf(i, "getWorkItem", phase)), PhaseIds(i, phase))
            /\ \A n \in 1..Len(log) :
                  (log[n].op = "updateStatus" /\ log[n].phase = phase)
                     => /\ n > 1
                        /\ log[n - 1].op = "getWorkItem"
                        /\ log[n - 1].phase = phase
                        /\ log[n - 1].task = log[n].task
                        /\ Succeeded(log[n - 1])
                        /\ log[n - 1].token # NoLock
                        /\ log[n].token = log[n - 1].token
                        /\ PhaseKey(i, phase) \in DOMAIN STATUS_MAPPING
                        /\ log[n].href = STATUS_MAPPING[PhaseKey(i, phase)]
                        /\ log[n].href \notin StatusKeys

\* two tasks have been read and updated in one applyStatus
C3_Witness ==
    /\ Len(CallsOf(1, "updateStatus", "push")) = 2
    /\ \A n \in 1..2 : Succeeded(CallsOf(1, "updateStatus", "push")[n])
    /\ CallsOf(1, "updateStatus", "push")[1].token # CallsOf(1, "updateStatus", "push")[2].token

\* the handler has at least one comment to post for the payload
HasComment(pl) ==
    \/ NotifyIds(pl) # <<>>
    \/ IsPushFlow(pl) /\ ReferencedIds(pl) # <<>>

LastCall(i) == inv[i].log[Len(inv[i].log)]

\* applyStatus of the push step has nothing to do
NoopPush(pl) ==
    \/ PushKey(pl) = None
    \/ PushKey(pl) \notin DOMAIN STATUS_MAPPING
    \/ ReferencedIds(pl) = <<>>

\* applyStatus of the branch-creation step has nothing to do
NoopBranch(pl) == "in_progress" \notin DOMAIN STATUS_MAPPING \/ NotifyIds(pl) = <<>>

(***************************************************************************)
(* C4: applyStatus with no status key, with a key absent from the mapping  *)
(* or with no task id issues no getWorkItem/updateStatus and raises no     *)
(* error, whether or not the tracker URL and credential are configured:    *)
(* an invocation whose applyStatus steps are all of that kind ends in an   *)
(* error only if add_comment_to_task raised it.                            *)
(***************************************************************************)
C4_ApplyStatusNoop ==
    \A i \in Invocations :
        LET pl == payload[i]
            log == inv[i].log
        IN  /\ (\E n \in 1..Len(log) : IsStatusCall(log[n]) /\ log[n].phase = "push")
                  => ~NoopPush(pl)
            /\ (\E n \in 1..Len(log) : IsStatusCall(log[n]) /\ log[n].phase = "branch")
                  => ~NoopBranch(pl)
            /\ (Done(i) /\ inv[i].result.code \notin {200, 403}
                   /\ NoopPush(pl) /\ NoopBranch(pl))
                  => \/ /\ log # <<>> /\ LastCall(i).op = "addComment"
                        /\ ~Succeeded(LastCall(i)) \/ ~LastCall(i).json
                     \/ log = <<>> /\ ~configured /\ HasComment(pl)

\* a push to main without any task reference has ended ok, the key being mapped
\* and the tracker not configured
C4_Witness ==
    /\ EndedOk(1) /\ ~configured
    /\ IsPushFlow(payload[1]) /\ payload[1].commits # <<>>
    /\ PushKey(payload[1]) = "completed" /\ "completed" \in DOMAIN STATUS_MAPPING
    /\ ReferencedIds(payload[1]) = <<>>
    /\ inv[1].log = <<>>

(***************************************************************************)
(* C6: a 404 on getWorkItem or updateStatus is benign: no updateStatus     *)
(* follows a 404 read of a task, the invocation does not end in an error   *)
(* on it, and the loop goes on with the next task id.                      *)
(***************************************************************************)
C6_NotFoundBenign ==
    \A i \in Invocations :
        LET log == inv[i].log
        IN  \A n \in 1..Len(log) :
              (IsStatusCall(log[n]) /\ log[n].code = 404)
                 => LET ids == PhaseIds(i, log[n].phase)
                        q == CHOOSE q \in 1..Len(ids) : ids[q] = log[n].task
                    IN  /\ \A m \in 1..Len(log) :
                              (log[n].op = "getWorkItem" /\ log[m].op = "updateStatus"
                                  /\ log[m].phase = log[n].phase)
                                 => log[m].task # log[n].task
                        /\ n = Len(log) => inv[i].result.code \in {0, 200}
                        /\ (n < Len(log) /\ q < Len(ids))
                              => /\ log[n + 1].op = "getWorkItem"
                                 /\ log[n + 1].task = ids[q + 1]
                                 /\ log[n + 1].phase = log[n].phase
                        /\ (n = Len(log) /\ q < Len(ids))
                              => /\ inv[i].pc = "fetch"
                                 /\ inv[i].unique_ids[inv[i].sk] = ids[q + 1]

\* after a not-found read of one task and a not-found write of the next the
\* invocation has ended ok
C6_Witness ==
    /\ EndedOk(1)
    /\ Len(inv[1].log) >= 3
    /\ LET log == inv[1].log
           n == Len(log)
       IN  /\ log[n].op = "updateStatus" /\ log[n].code = 404
           /\ log[n - 2].op = "getWorkItem" /\ log[n - 2].code = 404
           /\ log[n - 2].task # log[n].task

\* a response that makes a call fail: no response at all, or a status that is
\* not a success (for the status calls, other than not-found)
Failing(call) ==
    \/ call.code = NETWORK_ERROR
    \/ ~Succeeded(call) /\ (IsStatusCall(call) => call.code # 404)

(***************************************************************************)
(* C7: an addComment that meets a network failure or a non-success status, *)
(* and a getWorkItem or updateStatus that meets a network failure or a     *)
(* non-success status other than not-found, ends the invocation with a     *)
(* server error.                                                           *)
(***************************************************************************)
C7_FailuresSurfaced ==
    \A i \in Invocations :
        LET log == inv[i].log
        IN  \A n \in 1..Len(log) :
              Failing(log[n])
                 => /\ n = Len(log)
                    /\ Done(i)
                    /\ inv[i].result.status = "error"
                    /\ inv[i].result.code \in 500..599

\* a comment met a 404 and the invocation ended with a server error
C7_Witness ==
    /\ Done(1) /\ inv[1].result.code = 500
    /\ inv[1].log # <<>>
    /\ LastCall(1).op = "addComment" /\ LastCall(1).code = 404

(***************************************************************************)
(* C8: notifyBranchCreated posts nothing for an empty task list; otherwise *)
(* it posts one and the same comment once per unique task id, in order,    *)
(* and only after all of them applies "in_progress" to the same tasks.     *)
(***************************************************************************)
C8_NotifyThenInProgress ==
    \A i \in Invocations :
        LET ids == NotifyIds(payload[i])
            comments == CallsOf(i, "addComment", "branch")
            reads == CallsOf(i, "getWorkItem", "branch")
            updates == CallsOf(i, "updateStatus", "branch")
            calls == PhaseCalls(i, "branch")
        IN  /\ IsPrefix(TasksOf(comments), ids)
            /\ \A n \in 1..Len(comments) : comments[n].body = comments[1].body
            /\ \A n \in 1..Len(calls) :
                  calls[n][1] = "addComment" => n <= Len(comments)
            /\ reads # <<>> => TasksOf(comments) = ids
            /\ \A n \in 1..Len(updates) :
                  updates[n].href = STATUS_MAPPING["in_progress"]
            /\ (EndedOk(i) /\ AllSucceeded(i))
                  => /\ TasksOf(comments) = ids
                     /\ "in_progress" \in DOMAIN STATUS_MAPPING => TasksOf(updates) = ids

\* the creation of a branch naming two tasks has been notified and both tasks
\* have been set in progress
C8_Witness ==
    /\ EndedOk(1) /\ AllSucceeded(1)
    /\ Len(NotifyIds(payload[1])) = 2
    /\ TasksOf(CallsOf(1, "addComment", "branch")) = NotifyIds(payload[1])
    /\ TasksOf(CallsOf(1, "updateStatus", "branch")) = NotifyIds(payload[1])

\* the accepted status writes of all invocations, as <<invocation, position>>
AcceptedWrites ==
    {w \in UNION {{<<i, n>> : n \in 1..Len(inv[i].log)} : i \in Invocations} :
        /\ inv[w[1]].log[w[2]].op = "updateStatus"
        /\ inv[w[1]].log[w[2]].code = 200}

WriteAt(w) == inv[w[1]].log[w[2]]

(***************************************************************************)
(* C5: with two invocations updating the same task concurrently, the       *)
(* tracker accepts no write whose revision token another accepted write    *)
(* has made stale; the invocation whose write is rejected with a conflict  *)
(* ends with a server error and issues no further call; and within one     *)
(* applyStatus no task is read or written more than once.                  *)
(***************************************************************************)
C5_ConflictSurfacedNoRetry ==
    /\ \A v, w \in AcceptedWrites :
          (v # w /\ WriteAt(v).task = WriteAt(w).task) => WriteAt(v).token # WriteAt(w).token
    /\ \A i \in Invocations :
          LET log == inv[i].log
          IN  /\ \A n \in 1..Len(log) :
                    (log[n].op = "updateStatus" /\ log[n].code = 409)
                       => /\ n = Len(log)
                          /\ Done(i)
                          /\ inv[i].result = [code |-> 500, status |-> "error"]
              /\ \A n, m \in 1..Len(log) :
                    (/\ n # m /\ IsStatusCall(log[n])
                     /\ log[n].op = log[m].op /\ log[n].phase = log[m].phase)
                       => log[n].task # log[m].task

\* both invocations read the same revision of a task, the write of the first
\* was accepted and the write of the second was rejected as a conflict
C5_Witness ==
    /\ Done(2) /\ inv[2].result.code = 500
    /\ inv[2].log # <<>>
    /\ LastCall(2).op = "updateStatus" /\ LastCall(2).code = 409
    /\ \E n \in 1..Len(inv[1].log) :
          /\ inv[1].log[n].op = "updateStatus"
          /\ inv[1].log[n].code = 200
          /\ inv[1].log[n].task = LastCall(2).task
          /\ inv[1].log[n].token = LastCall(2).token

\* the positions of a text where a '#<digits>' match starts
HashMatches(t) == {q \in 1..(Len(t) - 1) : t[q] = "#" /\ IsDigit(t[q + 1])}

\* the number written by the digit run after the "#" at position q
NumberAt(t, q) == IntOf(SubSeq(t, q + 1, DigitRunEnd(t, q + 1) - 1))

\* the text before position q ends, ignoring case, with the phrase
PrecededBy(t, q, phrase) ==
    /\ q > Len(phrase)
    /\ Lower(SubSeq(t, q - Len(phrase), q - 1)) = phrase

IsPullRequestNumber(t, q) ==
    PrecededBy(t, q, PULL_REQUEST_SP) \/ PrecededBy(t, q, PULL_REQUEST_HY)

MERGE_PR_EXAMPLE ==
    <<"M", "e", "r", "g", "e", " ", "p", "u", "l", "l", " ", "r", "e", "q", "u", "e", "s", "t", " ", "#", "4", "2", " ", "f", "r", "o", "m", " ", "u", "s", "e", "r", "/", "f", "i", "x", "-", "#", "7">>

(***************************************************************************)
(* C11: iter_task_ids returns the numbers of exactly those '#<digits>'     *)
(* matches that the text before the match does not end, ignoring case,     *)
(* with "pull request " or "pull-request "; for "Merge pull request #42    *)
(* from user/fix-#7" it returns 7 and not 42.                              *)
(***************************************************************************)
C11_PrNumbersDiscarded ==
    fn = "iter_task_ids"
       => /\ {out[k] : k \in 1..Len(out)}
                = {NumberAt(text, q) :
                      q \in {r \in HashMatches(text) : ~IsPullRequestNumber(text, r)}}
          /\ text = MERGE_PR_EXAMPLE => out = <<7>>

\* iter_task_ids has run on the merge summary, which has a discarded match
\* (#42) and a kept one (#7)
C11_Witness ==
    /\ fn = "iter_task_ids"
    /\ text = MERGE_PR_EXAMPLE
    /\ \E q \in HashMatches(text) : IsPullRequestNumber(text, q)
    /\ \E q \in HashMatches(text) : ~IsPullRequestNumber(text, q)
    /\ out = <<7>>

\* no comment of a push goes to a task that no commit references otherwise
\* than as a pull-request number
PrNumbersNeverCommented ==
    \A i \in Invocations : \A n \in 1..Len(inv[i].log) :
        (inv[i].log[n].op = "addComment" /\ inv[i].log[n].phase = "push")
           => \E c \in 1..Len(payload[i].commits) :
                 LET t == Strip(payload[i].commits[c].message)
                 IN  \E q \in HashMatches(t) :
                        /\ ~IsPullRequestNumber(t, q)
                        /\ NumberAt(t, q) = inv[i].log[n].task

\* the candidates of the three merge patterns on a line
PrCandidate(line) == AfterFirstSlash(MergePrSearch(line).group)

BranchCandidate(line) == RemoveFirst(Strip(MergeBranchSearch(line).group), ORIGIN_PREFIX)

RemoteCandidate(line) == RemoveFirst(Strip(MergeRemoteSearch(line).group), ORIGIN_PREFIX)

\* a candidate is returned if it is non-empty and differs from the target
Returned(candidate, target) ==
    IF candidate # <<>> /\ candidate # target THEN candidate ELSE <<>>

\* the candidate of the first pattern, in order, that matches the line
FirstMatchWins(line, target) ==
    IF MergePrSearch(line).found THEN Returned(PrCandidate(line), target)
    ELSE IF MergeBranchSearch(line).found THEN Returned(BranchCandidate(line), target)
    ELSE IF MergeRemoteSearch(line).found THEN Returned(RemoteCandidate(line), target)
    ELSE <<>>

(***************************************************************************)
(* C12: extract_source_branch_from_message inspects the first line only    *)
(* and returns the candidate of the first of the three patterns that       *)
(* matches, if it is non-empty and differs from the target branch, and     *)
(* none otherwise; no later pattern produces the result once an earlier    *)
(* one has matched.                                                        *)
(***************************************************************************)
C12_FirstMatchWins ==
    (fn = "extract_source_branch_from_message" /\ text # <<>>)
       => out = FirstMatchWins(FirstLine(text), target_branch)

\* the quoted source of a pattern with only a leading "origin/" removed
LeadingOriginRemoved(source) ==
    IF StartsWith(source, ORIGIN_PREFIX)
    THEN SubSeq(source, Len(ORIGIN_PREFIX) + 1, Len(source))
    ELSE source

(***************************************************************************)
(* C18: when the "Merge branch" pattern (or, failing it, the "Merge        *)
(* remote-tracking branch" pattern) is the first to match, a returned      *)
(* branch is the quoted source with only a leading "origin/" removed; a    *)
(* source that does not start with "origin/" is returned unchanged.        *)
(***************************************************************************)
C18_OnlyLeadingOriginRemoved ==
    (fn = "extract_source_branch_from_message" /\ text # <<>>)
       => LET line == FirstLine(text)
              pr == MergePrSearch(line)
              mb == MergeBranchSearch(line)
              mr == MergeRemoteSearch(line)
          IN  /\ (~pr.found /\ mb.found /\ out = BranchCandidate(line) /\ out # <<>>)
                    => out = LeadingOriginRemoved(Strip(mb.group))
              /\ (~pr.found /\ ~mb.found /\ mr.found /\ out # <<>>)
                    => out = LeadingOriginRemoved(Strip(mr.group))

\* the final "/"-separated segment of a name
FinalSegment(name) ==
    LET slashes == {p \in 1..Len(name) : name[p] = "/"}
    IN  IF slashes = {} THEN name
        ELSE SubSeq(name, (CHOOSE p \in slashes : \A q \in slashes : q <= p) + 1, Len(name))

\* the status key of a lower-cased final segment
KeyOfSegment(segment) ==
    IF segment \in {B_MAIN, <<"m", "a", "s", "t", "e", "r">>} THEN "completed"
    ELSE IF segment = B_DEV THEN "testing"
    ELSE None

\* C13 as stated: the key is decided by the final segment of the branch name,
\* lower-cased
C13_KeyOfFinalSegment ==
    fn = "derive_status_key_from_branch"
       => out = KeyOfSegment(Lower(FinalSegment(text)))

(***************************************************************************)
(* C13 (amended): derive_status_key_from_branch returns "completed" iff    *)
(* the final "/"-separated segment of the branch name with its surrounding *)
(* whitespace trimmed, lower-cased, is "main" or "master", "testing" iff   *)
(* it is "dev", and none in every other case.                              *)
(***************************************************************************)
C13_KeyOfTrimmedFinalSegment ==
    fn = "derive_status_key_from_branch"
       => out = KeyOfSegment(Lower(FinalSegment(Strip(text))))

\* a name with trailing whitespace after a final segment "Master" has been
\* given the key "completed"
C13_Witness ==
    /\ fn = "derive_status_key_from_branch"
    /\ Strip(text) # text
    /\ Contains(text, "/")
    /\ FinalSegment(Strip(text)) = <<"M", "a", "s", "t", "e", "r">>
    /\ out = "completed"

\* the positions of a set, in increasing order
RECURSIVE InOrder(_)
InOrder(positions) ==
    IF positions = {} THEN <<>>
    ELSE <<Least(positions)>> \o InOrder(positions \ {Least(positions)})

\* the numbers of the '#<digits>' matches of a text, in order
HashNumbers(t) ==
    LET ps == InOrder(HashMatches(t))
    IN  [k \in 1..Len(ps) |-> NumberAt(t, ps[k])]

\* the positions where a digit run starts right after the start of the text
\* or one of - _ /
LooseStarts(t) ==
    {p \in 1..Len(t) : IsDigit(t[p]) /\ (p = 1 \/ t[p - 1] \in {"-", "_", "/"})}

LooseNumbers(t) ==
    LET ps == InOrder(LooseStarts(t))
    IN  [k \in 1..Len(ps) |-> IntOf(SubSeq(t, ps[k], DigitRunEnd(t, ps[k]) - 1))]

(***************************************************************************)
(* C14: iter_branch_task_ids returns the '#<digits>' numbers of the branch *)
(* name, without duplicates and in order of first appearance, when there   *)
(* is at least one; otherwise it returns, in order, every digit run that   *)
(* directly follows the start of the name or one of - _ /.                 *)
(***************************************************************************)
C14_HashIdsElseLooseRuns ==
    fn = "iter_branch_task_ids"
       => out = IF HashMatches(text) # {}
                THEN DictFromKeys(HashNumbers(text))
                ELSE LooseNumbers(text)

\* the same without the requirement that identifiers are not repeated
BranchIdsUpToRepeats ==
    fn = "iter_branch_task_ids"
       => IF HashMatches(text) # {}
          THEN DictFromKeys(out) = DictFromKeys(HashNumbers(text))
          ELSE out = LooseNumbers(text)

\* a text that writes an integer: digits, or "-" and digits
IsNumericString(t) ==
    IsDigitText(t) \/ (t # <<>> /\ Head(t) = "-" /\ IsDigitText(Tail(t)))

\* the entry the mapping is to hold for a value (the empty text: no entry);
\* a string is classified without the whitespace around it
ExpectedEntry(v) ==
    LET raw == Strip(v.text)
    IN  IF v.kind = "int" THEN STATUSES_PATH \o Formatted(v)
        ELSE IF v.kind # "str" THEN <<>>
        ELSE IF IsNumericString(raw) THEN STATUSES_PATH \o raw
        ELSE IF StartsWith(raw, <<"h", "t", "t", "p">>) \/ StartsWith(raw, <<"/">>) THEN raw
        ELSE <<>>

(***************************************************************************)
(* C15: normalize_status_value gives an integer and its numeric string the *)
(* same synthetic path, passes a string starting with "http" or "/"        *)
(* through, and gives no entry for any other value (other string, empty    *)
(* string, boolean, null, list, object); load_status_mapping returns the   *)
(* empty mapping for a missing or unparsable file and otherwise exactly    *)
(* the entries of the values that have one.                                *)
(***************************************************************************)
C15_MappingNormalized ==
    /\ fn = "normalize_status_value" => out = ExpectedEntry(value)
    /\ fn = "load_status_mapping"
          => /\ (value.state # "parsed" \/ value.top # "dict") => out = <<>>
             /\ (value.state = "parsed" /\ value.top = "dict")
                   => /\ DOMAIN out = {k \in DOMAIN value.members :
                                          ExpectedEntry(value.members[k]) # <<>>}
                      /\ \A k \in DOMAIN out : out[k] = ExpectedEntry(value.members[k])

\* the request passed the check of its signature or token
Admitted(i) == inv[i].pc # "idle" /\ inv[i].result.code # 403

\* the handler has a status update to perform for the payload under a mapped key
HasMappedUpdate(pl) ==
    \/ ~NoopBranch(pl)
    \/ IsPushFlow(pl) /\ ~NoopPush(pl)

(***************************************************************************)
(* C16: with the tracker URL or the credential missing, no outbound call   *)
(* is issued, and every admitted invocation that has a comment to post or  *)
(* a mapped status update to perform ends with a server error, never ok.   *)
(***************************************************************************)
C16_MisconfiguredIsServerError ==
    ~configured
       => \A i \in Invocations :
             /\ inv[i].log = <<>>
             /\ (Done(i) /\ Admitted(i)
                    /\ (HasComment(payload[i]) \/ HasMappedUpdate(payload[i])))
                   => /\ inv[i].result.status = "error"
                      /\ inv[i].result.code \in 500..599

\* without the configuration, a push that references a task has ended with a
\* server error before any call
C16_Witness ==
    /\ ~configured
    /\ Done(1) /\ Admitted(1)
    /\ IsPushFlow(payload[1]) /\ ReferencedIds(payload[1]) # <<>>
    /\ inv[1].result = [code |-> 500, status |-> "error"]
    /\ inv[1].log = <<>>

\* a hash that is non-empty and all zeros
AllZeros(hash) == hash # <<>> /\ \A p \in 1..Len(hash) : hash[p] = "0"

\* the event is one of the three branch-creation events
BranchCreationEvent(pl) ==
    \/ /\ pl.event.provider = "GitHub"
       /\ pl.event.event = "create" /\ pl.event.ref_type = "branch"
    \/ /\ pl.event.provider = "GitHub"
       /\ pl.event.event \in {"", "push"} /\ pl.event.created
    \/ /\ pl.event.provider = "GitLab"
       /\ IsPushFlow(pl) /\ AllZeros(pl.event.before)

\* the invocation has started the branch-created notification
NotificationStarted(i) ==
    \/ inv[i].pc = "notify_comment"
    \/ \E n \in 1..Len(inv[i].log) : inv[i].log[n].phase = "branch"

FallbackChain(name, username, email) ==
    IF name # "" THEN name
    ELSE IF username # "" THEN username
    ELSE IF email # "" THEN email
    ELSE "Unknown"

(***************************************************************************)
(* C19: resolve_author gives, for a nested author object and for the flat  *)
(* author fields alike, the first non-empty of name, username and email,   *)
(* else "Unknown"; its result is never empty.                              *)
(***************************************************************************)
C19_AuthorFallbackChain ==
    fn = "resolve_author"
       => /\ out # ""
          /\ value.author.kind = "dict"
                => out = FallbackChain(value.author.name, value.author.username,
                                       value.author.email)
          /\ value.author.kind = "none"
                => out = FallbackChain(value.author_name, value.author_username,
                                       value.author_email)

\* the same for the nested author object alone
NestedAuthorChain ==
    (fn = "resolve_author" /\ value.author.kind = "dict")
       => out = FallbackChain(value.author.name, value.author.username, value.author.email)

\* two calls make the same request
SameRequest(a, b) ==
    /\ a.op = b.op /\ a.phase = b.phase /\ a.task = b.task
    /\ a.body = b.body /\ a.href = b.href

\* two calls met the same response
SameResponse(a, b) == a.code = b.code /\ a.json = b.json /\ a.token = b.token

\* a comment of the push step has failed
CommitCommentFailed(i) ==
    \E n \in 1..Len(inv[i].log) :
        /\ inv[i].log[n].op = "addComment" /\ inv[i].log[n].phase = "push"
        /\ (Failing(inv[i].log[n]) \/ ~inv[i].log[n].json)

(***************************************************************************)
(* C20: a failed outbound call is the last call of its invocation, which   *)
(* ends with an error and undoes nothing; after a failed commit comment no *)
(* status update of the push is issued for any task; and a delivery of the *)
(* same webhook issues, response for response, the same calls again, the   *)
(* comments already posted included.                                       *)
(***************************************************************************)
C20_FailureStopsNoUndoNoMemory ==
    \A i \in Invocations :
        LET log == inv[i].log
        IN  /\ \A n \in 1..Len(log) :
                  /\ log[n].op \in {"addComment", "getWorkItem", "updateStatus"}
                  /\ (Failing(log[n]) \/ ~log[n].json)
                        => /\ n = Len(log)
                           /\ Done(i) /\ inv[i].result.status = "error"
            /\ CommitCommentFailed(i)
                  => \A n \in 1..Len(log) : ~(IsStatusCall(log[n]) /\ log[n].phase = "push")
            /\ \A j \in Invocations \ {i} :
                  payload[j] = payload[i]
                     => \A n \in 1..Len(log) :
                           (/\ n <= Len(inv[j].log)
                            /\ \A m \in 1..(n - 1) : SameResponse(log[m], inv[j].log[m]))
                              => SameRequest(log[n], inv[j].log[n])

\* a push failed at the comment of its second commit after the comment of its
\* first commit was posted, and a second delivery of it has posted that first
\* comment again
C20_Witness ==
    /\ payload[1] = payload[2]
    /\ Done(1) /\ inv[1].result.status = "error"
    /\ CommitCommentFailed(1)
    /\ \E n \in 1..Len(inv[1].log) :
          /\ inv[1].log[n].op = "addComment" /\ inv[1].log[n].phase = "push"
          /\ Succeeded(inv[1].log[n])
          /\ n <= Len(inv[2].log)
          /\ SameRequest(inv[1].log[n], inv[2].log[n])
          /\ Succeeded(inv[2].log[n])

\* the status writes of invocation i for a task, in the order of their issue
StatusWrites(i, t) ==
    LET Wanted(call) == call.op = "updateStatus" /\ call.task = t
    IN  SelectSeq(inv[i].log, Wanted)

\* the tasks that the branch name of a created branch names and that a commit of
\* the same push references
NamedAndReferenced(pl) ==
    LET named == NotifyIds(pl)
        referenced == ReferencedIds(pl)
    IN  IF ~IsPushFlow(pl) \/ named = <<>> THEN {}
        ELSE {named[n] : n \in 1..Len(named)}
                \cap {referenced[n] : n \in 1..Len(referenced)}

\* the calls of the branch-creation step come first, then the commit comments,
\* then the status calls of the push; each carries what its step sends
StepsInOrder(i) ==
    LET log == inv[i].log
        pl == payload[i]
    IN  /\ \A a, b \in 1..Len(log) :
              /\ log[a].phase = "branch" /\ log[b].phase = "push" => a < b
              /\ (/\ log[a].phase = "push" /\ log[a].op = "addComment"
                  /\ log[b].phase = "push" /\ IsStatusCall(log[b])) => a < b
        /\ \A n \in 1..Len(log) :
              /\ log[n].phase \in {"branch", "push"}
              /\ log[n].op = "updateStatus" /\ log[n].phase = "branch"
                    => log[n].href = STATUS_MAPPING["in_progress"]
              /\ log[n].op = "updateStatus" /\ log[n].phase = "push"
                    => /\ PushKey(pl) \in {"completed", "testing"}
                       /\ log[n].href = STATUS_MAPPING[PushKey(pl)]
              /\ log[n].op = "addComment"
                    => (log[n].phase = "branch"
                          <=> log[n].body = BranchComment(SourceOf(pl), inv[i].branch_name,
                                                          BranchUrl(pl, inv[i].branch_name)))

(***************************************************************************)
(* C21 as stated: in a push that is also a branch creation the calls of    *)
(* the branch-creation step precede the first commit comment and every     *)
(* commit comment precedes the first branch-derived status call; and for a *)
(* task both named in the branch name and referenced by a commit, the last *)
(* status write of a completed invocation is the branch-derived one, never *)
(* the "in_progress" one.                                                  *)
(***************************************************************************)
C21_LastWriteBranchDerived ==
    \A i \in Invocations :
        /\ StepsInOrder(i)
        /\ EndedOk(i)
              => \A t \in NamedAndReferenced(payload[i]) :
                    LET writes == StatusWrites(i, t)
                    IN  writes # <<>> => writes[Len(writes)].phase = "push"

(***************************************************************************)
(* C21 amended: the same order of the steps; and for a task both named in  *)
(* the branch name and referenced by a commit (as for any task), a         *)
(* branch-derived status write, when the invocation issues one for the     *)
(* task, is its last status write for the task; it issues one when the     *)
(* branch derives a mapped status and every call succeeds; when it issues  *)
(* none, the last status write for the task, if any, is the "in_progress"  *)
(* one.                                                                    *)
(***************************************************************************)
C21_BranchDerivedWriteIsLast ==
    \A i \in Invocations :
        LET Derived(t) ==
                \E n \in 1..Len(inv[i].log) :
                    /\ inv[i].log[n].op = "updateStatus" /\ inv[i].log[n].task = t
                    /\ inv[i].log[n].phase = "push"
        IN  /\ StepsInOrder(i)
            /\ \A t \in Tasks :
                  LET writes == StatusWrites(i, t)
                  IN  writes # <<>>
                        => /\ Derived(t)
                                => /\ writes[Len(writes)].phase = "push"
                                   /\ writes[Len(writes)].href
                                         = STATUS_MAPPING[PushKey(payload[i])]
                           /\ ~Derived(t)
                                => writes[Len(writes)].href = STATUS_MAPPING["in_progress"]
            /\ (/\ EndedOk(i) /\ AllSucceeded(i)
                 /\ PushKey(payload[i]) # None
                 /\ PushKey(payload[i]) \in DOMAIN STATUS_MAPPING)
                  => \A t \in NamedAndReferenced(payload[i]) : Derived(t)

\* a completed push that created a branch: a task named in the branch name and
\* referenced by a commit was written "in_progress" and then the derived status
C21_Witness ==
    /\ EndedOk(1)
    /\ \E n \in 1..Len(inv[1].log) :
          inv[1].log[n].op = "addComment" /\ inv[1].log[n].phase = "push"
    /\ \E t \in Tasks :
          LET writes == StatusWrites(1, t)
          IN  /\ Len(writes) = 2
              /\ writes[1].phase = "branch" /\ Succeeded(writes[1])
              /\ writes[2].phase = "push" /\ Succeeded(writes[2])
              /\ t \in NamedAndReferenced(payload[1])

\* a completed push that created a branch whose name derives no status: the
\* last status write for the task is the "in_progress" one
InProgressStays ==
    /\ EndedOk(1) /\ AllSucceeded(1)
    /\ PushKey(payload[1]) = None
    /\ \E t \in NamedAndReferenced(payload[1]) : Len(StatusWrites(1, t)) = 1

====
